---- MODULE Spec2Model ----
(***************************************************************************)
(* The license tasks of tasks/go.py: get_licenses_list, generate_licenses, *)
(* lint_licenses and lint_licenses_old.                                    *)
(*                                                                         *)
(* A Python string is a sequence of code points (Naturals), so that find,  *)
(* split, startswith, rstrip, sort and the CSV reader are computed on the  *)
(* characters as the code computes them.                                   *)
(***************************************************************************)
EXTENDS Naturals, Integers, Sequences, FiniteSets, TLC

VARIABLES
    platform,          \* sys.platform
    tool_ok,           \* whether ctx.run of "wwhrd list" succeeds
    stderr,            \* result.stderr of "wwhrd list --no-color"
    file,              \* content of LICENSE-3rdparty.csv on disk
    cmd,               \* the task that ran last ("none" before any)
    outcome,           \* how that task ended
    stdout,            \* the lines that task printed
    licenses,          \* lint_licenses: the rows read (after the win32 filter)
    new_licenses,      \* the list get_licenses_list returned to that task
    removed_licenses,  \* lint_licenses: the "+" rows
    added_licenses     \* lint_licenses: the "-" rows

vars == <<platform, tool_ok, stderr, file, cmd, outcome, stdout, licenses,
          new_licenses, removed_licenses, added_licenses>>

----------------------------------------------------------------------------
(* String literals of the source, as code points.                          *)

HEADER == <<67, 111, 109, 112, 111, 110, 101, 110, 116, 44, 79, 114, 105, 103, 105, 110, 44, 76, 105, 99, 101, 110, 115, 101, 10>>  \* Component,Origin,License\n
BOOTSTRAP == <<99, 111, 114, 101, 44, 34, 103, 105, 116, 104, 117, 98, 46, 99, 111, 109, 47, 102, 114, 97, 112, 112, 111, 115, 101, 108, 108, 105, 47, 119, 119, 104, 114, 100, 34, 44, 77, 73, 84>>  \* core,"github.com/frapposelli/wwhrd",MIT
MARKER == <<109, 115, 103, 61, 34, 70, 111, 117, 110, 100, 32, 76, 105, 99, 101, 110, 115, 101, 34>>  \* msg="Found License"
LICENSE_EQ == <<108, 105, 99, 101, 110, 115, 101, 61>>  \* license=
PACKAGE_EQ == <<112, 97, 99, 107, 97, 103, 101, 61>>  \* package=
CORE == <<99, 111, 114, 101>>  \* core
COMMA == <<44>>  \* ,
QUOTE == <<34>>  \* "
SPACE == <<32>>  \* one blank
NEWLINE == <<10>>  \* \n
SLASH == <<47>>  \* /
IGNORE_GOPSUTIL == <<103, 105, 116, 104, 117, 98, 46, 99, 111, 109, 47, 115, 104, 105, 114, 111, 117, 47, 103, 111, 112, 115, 117, 116, 105, 108>>  \* github.com/shirou/gopsutil
MSG_VERIFY == <<86, 101, 114, 105, 102, 121, 32, 108, 105, 99, 101, 110, 115, 101, 115>>  \* Verify licenses
PLUS == <<43, 32>>  \* "+ "
MINUS == <<45, 32>>  \* "- "
MSG_NOT_UP_TO_DATE == <<108, 105, 99, 101, 110, 115, 101, 115, 32, 97, 114, 101, 32, 110, 111, 116, 32, 117, 112, 45, 116, 111, 45, 100, 97, 116, 101>>  \* licenses are not up-to-date
MSG_OK == <<108, 105, 99, 101, 110, 115, 101, 115, 32, 111, 107>>  \* licenses ok
MSG_HACK_WINDOWS == <<91, 104, 97, 99, 107, 45, 119, 105, 110, 100, 111, 119, 115, 93, 32, 105, 103, 110, 111, 114, 101, 58, 32>>  \* "[hack-windows] ignore: "
MSG_GENERATED == <<108, 105, 99, 101, 110, 115, 101, 115, 32, 102, 105, 108, 101, 115, 32, 103, 101, 110, 101, 114, 97, 116, 101, 100>>  \* licenses files generated
DEP_CODEMIRROR == <<103, 105, 116, 104, 117, 98, 46, 99, 111, 109, 47, 99, 111, 100, 101, 109, 105, 114, 114, 111, 114, 47, 67, 111, 100, 101, 77, 105, 114, 114, 111, 114>>  \* github.com/codemirror/CodeMirror
DEP_FONTAWESOME == <<103, 105, 116, 104, 117, 98, 46, 99, 111, 109, 47, 70, 111, 114, 116, 65, 119, 101, 115, 111, 109, 101, 47, 70, 111, 110, 116, 45, 65, 119, 101, 115, 111, 109, 101>>  \* github.com/FortAwesome/Font-Awesome
DEP_JQUERY == <<103, 105, 116, 104, 117, 98, 46, 99, 111, 109, 47, 106, 113, 117, 101, 114, 121, 47, 106, 113, 117, 101, 114, 121>>  \* github.com/jquery/jquery

NON_GO_DEPS == {DEP_CODEMIRROR, DEP_FONTAWESOME, DEP_JQUERY}

\* The characters str.rstrip() removes: blank, \t, \n, \v, \f, \r.
WHITESPACE == {32, 9, 10, 11, 12, 13}

----------------------------------------------------------------------------
(* Python's str and list operations.                                       *)

Range(s) == {s[i] : i \in 1..Len(s)}

\* ele in lst
In(ele, lst) == \E i \in 1..Len(lst) : lst[i] = ele

\* s[from:], with a 0-based index
Slice(s, from) == SubSeq(s, from + 1, Len(s))

\* s.startswith(prefix)
StartsWith(s, prefix) ==
    /\ Len(prefix) <= Len(s)
    /\ SubSeq(s, 1, Len(prefix)) = prefix

\* Whether sub occurs in s at the 0-based index i.
OccursAt(s, sub, i) ==
    /\ i + Len(sub) <= Len(s)
    /\ \A k \in 1..Len(sub) : s[i + k] = sub[k]

\* s.find(sub): the lowest 0-based index where sub occurs in s, or -1
Find(s, sub) ==
    LET hits == {i \in 0..(Len(s) - Len(sub)) : OccursAt(s, sub, i)}
    IN  IF hits = {} THEN -1 ELSE CHOOSE i \in hits : \A j \in hits : i <= j

\* sub in s
Contains(s, sub) == Find(s, sub) # -1

\* s.split(sep)
RECURSIVE Split(_, _)
Split(s, sep) ==
    LET i == Find(s, sep)
    IN  IF i = -1 THEN <<s>>
        ELSE <<SubSeq(s, 1, i)>> \o Split(Slice(s, i + Len(sep)), sep)

\* sep.join(parts)
RECURSIVE Join(_, _)
Join(sep, parts) ==
    IF parts = <<>> THEN <<>>
    ELSE IF Len(parts) = 1 THEN parts[1]
    ELSE parts[1] \o sep \o Join(sep, Tail(parts))

\* s.rstrip()
RECURSIVE rstrip(_)
rstrip(s) ==
    IF s # <<>> /\ s[Len(s)] \in WHITESPACE THEN rstrip(SubSeq(s, 1, Len(s) - 1))
    ELSE s

\* a < b for two str: by code point, a proper prefix first
RECURSIVE StrLess(_, _)
StrLess(a, b) ==
    IF b = <<>> THEN FALSE
    ELSE IF a = <<>> THEN TRUE
    ELSE IF a[1] # b[1] THEN a[1] < b[1]
    ELSE StrLess(Tail(a), Tail(b))

\* one step of list.sort(): x placed in the sorted list s, after its equals
RECURSIVE insert_sorted(_, _)
insert_sorted(x, s) ==
    IF s = <<>> THEN <<x>>
    ELSE IF StrLess(x, s[1]) THEN <<x>> \o s
    ELSE <<s[1]>> \o insert_sorted(x, Tail(s))

\* The list left in the order of the appends.
list_sort_skipped(s) == s

\* licenses.sort()
RECURSIVE list_sort(_)
list_sort(s) ==
    IF s = <<>> THEN <<>>
    ELSE insert_sorted(s[Len(s)], list_sort(SubSeq(s, 1, Len(s) - 1)))

----------------------------------------------------------------------------
(* get_licenses_list                                                       *)

\* "core,{},{}".format(package, license)
format_entry(package, license) == CORE \o COMMA \o package \o COMMA \o license

\* The loop over the vals of one marker line, from vals[i] on, with the
\* license seen so far: the entries it appends.  An entry is appended when a
\* package= val is met, with the license value held at that moment.
RECURSIVE scan_vals(_, _, _)
scan_vals(vals, i, license) ==
    IF i > Len(vals) THEN <<>>
    ELSE IF StartsWith(vals[i], LICENSE_EQ)
         THEN scan_vals(vals, i + 1, Slice(vals[i], Len(LICENSE_EQ)))
    ELSE IF StartsWith(vals[i], PACKAGE_EQ)
         THEN <<format_entry(Slice(vals[i], Len(PACKAGE_EQ)), license)>>
              \o scan_vals(vals, i + 1, license)
    ELSE scan_vals(vals, i + 1, license)

\* The body of the loop over the lines: what one line appends.
parse_line(line) ==
    LET index == Find(line, MARKER)
    IN  IF index = -1 THEN <<>>
        ELSE scan_vals(Split(Slice(line, index + Len(MARKER)), SPACE), 1, <<>>)

RECURSIVE parse_lines(_, _)
parse_lines(lines, i) ==
    IF i > Len(lines) THEN <<>>
    ELSE parse_line(lines[i]) \o parse_lines(lines, i + 1)

\* The list before licenses.sort(): the bootstrap entry, then the entries in
\* the order of the output.
appended_licenses(err) ==
    <<BOOTSTRAP>> \o (IF err # <<>> THEN parse_lines(Split(err, NEWLINE), 1) ELSE <<>>)

\* What get_licenses_list returns when ctx.run succeeded with stderr err.
get_licenses_list(err) == list_sort(appended_licenses(err))

----------------------------------------------------------------------------
(* The manifest file.                                                      *)

\* for line in f: the lines of a text file, each with its newline
RECURSIVE file_lines(_)
file_lines(text) ==
    IF text = <<>> THEN <<>>
    ELSE LET i == Find(text, NEWLINE)
         IN  IF i = -1 THEN <<text>>
             ELSE <<SubSeq(text, 1, i + 1)>> \o file_lines(Slice(text, i + 1))

\* line.rstrip() for each line
RECURSIVE rstrip_each(_)
rstrip_each(lines) ==
    IF lines = <<>> THEN <<>>
    ELSE <<rstrip(lines[1])>> \o rstrip_each(Tail(lines))

\* lint_licenses' read of a file with a first line: next(f), then
\* licenses.append(line.rstrip()) for each line
read_licenses(text) == rstrip_each(Tail(file_lines(text)))

\* The rows written with a blank, not a newline, after each.
RECURSIVE write_rows_on_one_line(_)
write_rows_on_one_line(rows) ==
    IF rows = <<>> THEN <<>>
    ELSE rows[1] \o SPACE \o write_rows_on_one_line(Tail(rows))

\* f.write('{}\n'.format(license)) for each license
RECURSIVE write_rows(_)
write_rows(rows) ==
    IF rows = <<>> THEN <<>>
    ELSE rows[1] \o NEWLINE \o write_rows(Tail(rows))

\* The file generate_licenses leaves when it completes.
written_file(rows) == HEADER \o write_rows(rows)

----------------------------------------------------------------------------
(* csv.reader, default dialect: one line (without its newline) to fields.  *)

RECURSIVE csv_scan(_, _, _, _)
csv_scan(s, i, state, field) ==
    IF i > Len(s) THEN <<field>>
    ELSE LET c == <<s[i]>> IN
         CASE state = "START_FIELD" ->
                IF c = QUOTE THEN csv_scan(s, i + 1, "IN_QUOTED_FIELD", field)
                ELSE IF c = COMMA THEN <<field>> \o csv_scan(s, i + 1, "START_FIELD", <<>>)
                ELSE csv_scan(s, i + 1, "IN_FIELD", field \o c)
           [] state = "IN_FIELD" ->
                IF c = COMMA THEN <<field>> \o csv_scan(s, i + 1, "START_FIELD", <<>>)
                ELSE csv_scan(s, i + 1, "IN_FIELD", field \o c)
           [] state = "IN_QUOTED_FIELD" ->
                IF c = QUOTE THEN csv_scan(s, i + 1, "QUOTE_IN_QUOTED_FIELD", field)
                ELSE csv_scan(s, i + 1, "IN_QUOTED_FIELD", field \o c)
           [] state = "QUOTE_IN_QUOTED_FIELD" ->
                IF c = QUOTE THEN csv_scan(s, i + 1, "IN_QUOTED_FIELD", field \o c)
                ELSE IF c = COMMA THEN <<field>> \o csv_scan(s, i + 1, "START_FIELD", <<>>)
                ELSE csv_scan(s, i + 1, "IN_FIELD", field \o c)

\* A blank line is the row [].
csv_fields(line) == IF line = <<>> THEN <<>> ELSE csv_scan(line, 1, "START_FIELD", <<>>)

\* The rows csv.reader yields for a text: each line without its terminator.
chomp(l) == IF l # <<>> /\ <<l[Len(l)]>> = NEWLINE THEN SubSeq(l, 1, Len(l) - 1) ELSE l

RECURSIVE csv_each(_)
csv_each(lines) ==
    IF lines = <<>> THEN <<>>
    ELSE <<csv_fields(chomp(lines[1]))>> \o csv_each(Tail(lines))

csv_rows(text) == csv_each(file_lines(text))

\* csv.DictReader: the first row names the fields, blank rows are skipped
\* and a field the row is too short for is None.
NONE == <<-1>>
FIELD_ORIGIN == <<79, 114, 105, 103, 105, 110>>  \* Origin
FIELD_LICENSE == <<76, 105, 99, 101, 110, 115, 101>>  \* License

\* row[name] of the dict made of one row
dict_get(fieldnames, row, name) ==
    LET at == {k \in 1..Len(fieldnames) : fieldnames[k] = name /\ k <= Len(row)}
    IN  IF at = {} THEN NONE ELSE row[CHOOSE k \in at : \A j \in at : j <= k]

RECURSIVE dict_each(_, _)
dict_each(fieldnames, rows) ==
    IF rows = <<>> THEN <<>>
    ELSE IF rows[1] = <<>> THEN dict_each(fieldnames, Tail(rows))
    ELSE <<[Origin |-> dict_get(fieldnames, rows[1], FIELD_ORIGIN),
            License |-> dict_get(fieldnames, rows[1], FIELD_LICENSE)]>>
         \o dict_each(fieldnames, Tail(rows))

dict_entries(text) ==
    LET rows == csv_rows(text)
    IN  IF rows = <<>> THEN <<>> ELSE dict_each(rows[1], Tail(rows))
----------------------------------------------------------------------------
(* The inputs: what wwhrd prints, the recorded manifests, go.sum.          *)

MaxLines == 2   \* lines of wwhrd output
MaxRows == 2    \* rows of a recorded manifest

PKG_FOO == <<103, 105, 116, 104, 117, 98, 46, 99, 111, 109, 47, 102, 111, 111>>  \* github.com/foo
PKG_GOPSUTIL == <<103, 105, 116, 104, 117, 98, 46, 99, 111, 109, 47, 115, 104, 105, 114, 111, 117, 47, 103, 111, 112, 115, 117, 116, 105, 108, 47, 99, 112, 117>>  \* github.com/shirou/gopsutil/cpu
LIC_MIT == <<77, 73, 84>>  \* MIT
LIC_MIT_TAB == <<77, 73, 84, 9>>  \* MIT\t
LIC_BSD == <<66, 83, 68>>  \* BSD
NOISE == <<108, 101, 118, 101, 108, 61, 105, 110, 102, 111, 32, 109, 115, 103, 61, 34, 67, 104, 101, 99, 107, 105, 110, 103, 32, 108, 105, 99, 101, 110, 115, 101, 115, 34>>  \* level=info msg="Checking licenses"
LEVEL_INFO == <<108, 101, 118, 101, 108, 61, 105, 110, 102, 111, 32>>  \* "level=info "
GOSUM_FOO == <<103, 105, 116, 104, 117, 98, 46, 99, 111, 109, 47, 102, 111, 111, 32, 118, 49, 46, 48, 46, 48, 32, 104, 49, 58, 97, 98, 99, 61, 10>>  \* github.com/foo v1.0.0 h1:abc=\n
GOSUM_COMMENT == <<35, 32, 103, 111, 46, 115, 117, 109, 10>>  \* # go.sum\n

lic(l) == LICENSE_EQ \o l
pkg(p) == PACKAGE_EQ \o p

\* A "Found License" record as logrus prints it, and without the level.
found(vals) == LEVEL_INFO \o MARKER \o SPACE \o Join(SPACE, vals)
found_bare(vals) == MARKER \o SPACE \o Join(SPACE, vals)

DiscoveryLines ==
    { NOISE,
      found(<<lic(LIC_MIT), pkg(PKG_FOO)>>),
      found_bare(<<pkg(PKG_FOO), lic(LIC_MIT)>>),
      found(<<pkg(PKG_FOO)>>),
      found(<<lic(LIC_BSD)>>),
      found(<<lic(LIC_MIT), pkg(PKG_GOPSUTIL), pkg(PKG_FOO)>>),
      found(<<lic(LIC_MIT_TAB), pkg(PKG_FOO)>>) }

AuditLines ==
    { NOISE,
      found(<<lic(LIC_MIT), pkg(PKG_FOO)>>),
      found(<<lic(LIC_MIT), pkg(PKG_GOPSUTIL)>>) }

SeqsUpTo(S, n) == UNION {[1..k -> S] : k \in 0..n}

Outputs(lines) == {Join(NEWLINE, ls) : ls \in SeqsUpTo(lines, MaxLines)}

ManifestRows ==
    { BOOTSTRAP,
      format_entry(PKG_GOPSUTIL, LIC_MIT),
      format_entry(PKG_FOO, <<>>) }

\* A recorded manifest: the header line, then one line per row.
manifest_text(rows) ==
    HEADER \o (IF rows = <<>> THEN <<>> ELSE Join(NEWLINE, rows) \o NEWLINE)

FullManifest ==
    manifest_text(<<format_entry(DEP_FONTAWESOME, LIC_MIT),
                   format_entry(DEP_CODEMIRROR, LIC_MIT),
                   format_entry(PKG_FOO, LIC_BSD),
                   format_entry(DEP_JQUERY, LIC_MIT)>>)

Manifests ==
    {manifest_text(rows) : rows \in SeqsUpTo(ManifestRows, MaxRows)} \cup {FullManifest}

GoSums == {GOSUM_COMMENT, GOSUM_COMMENT \o GOSUM_FOO}

\* Wide discovery output against one recorded manifest, and a few discovery
\* outputs against every recorded manifest.
Inputs ==
    ({FullManifest} \X Outputs(DiscoveryLines)) \cup (Manifests \X Outputs(AuditLines))

Init ==
    /\ platform \in {"linux", "win32"}
    /\ tool_ok \in BOOLEAN
    /\ \E inp \in Inputs :
        /\ file = inp[1]
        /\ stderr = IF tool_ok THEN inp[2] ELSE <<>>
    /\ cmd = "none"
    /\ outcome = "none"
    /\ stdout = <<>>
    /\ licenses = <<>>
    /\ new_licenses = <<>>
    /\ removed_licenses = <<>>
    /\ added_licenses = <<>>

----------------------------------------------------------------------------
(* lint_licenses                                                           *)

IGNORE_LICENSES == <<IGNORE_GOPSUTIL>>

\* to_removed: the rows that contain one of the ignored names
to_removed(lics) ==
    SelectSeq(lics, LAMBDA l : \E k \in 1..Len(IGNORE_LICENSES) : Contains(l, IGNORE_LICENSES[k]))

\* The filter applied on every platform.
compared_licenses_always(plat, lics) ==
    LET removed == to_removed(lics)
    IN  SelectSeq(lics, LAMBDA x : ~In(x, removed))

\* The rows lint_licenses compares: on win32 without the rows of to_removed.
compared_licenses(plat, lics) ==
    LET removed == to_removed(lics)
    IN  IF plat = "win32" THEN SelectSeq(lics, LAMBDA x : ~In(x, removed))
        ELSE lics

\* The comprehension with its test inverted.
not_in_inverted(a, b) == SelectSeq(a, LAMBDA ele : In(ele, b))

\* [ele for ele in a if ele not in b]
not_in(a, b) == SelectSeq(a, LAMBDA ele : ~In(ele, b))

RECURSIVE prefixed(_, _)
prefixed(prefix, rows) ==
    IF rows = <<>> THEN <<>>
    ELSE <<prefix \o rows[1]>> \o prefixed(prefix, Tail(rows))

\* The test with the "-" list forgotten.
is_mismatch_removed_only(removed, added) == Len(removed) > 0

\* len(removed_licenses) + len(added_licenses) > 0
is_mismatch(removed, added) == Len(removed) + Len(added) > 0

lint_licenses ==
    /\ cmd' = "lint_licenses"
    /\ UNCHANGED <<platform, tool_ok, stderr, file>>
    /\ IF file = <<>>
       THEN \* next(f) on a file without a first line
            /\ outcome' = "StopIteration"
            /\ stdout' = <<MSG_VERIFY>>
            /\ licenses' = <<>>
            /\ new_licenses' = <<>>
            /\ removed_licenses' = <<>>
            /\ added_licenses' = <<>>
       ELSE IF ~tool_ok
       THEN \* ctx.run raises in get_licenses_list
            /\ outcome' = "tool_failure"
            /\ stdout' = <<MSG_VERIFY>>
            /\ licenses' = read_licenses(file)
            /\ new_licenses' = <<>>
            /\ removed_licenses' = <<>>
            /\ added_licenses' = <<>>
       ELSE \* the locals, each bound to its value once
            \E read \in {read_licenses(file)}, new \in {get_licenses_list(stderr)} :
            \E kept \in {compared_licenses(platform, read)} :
            \E removed \in {not_in(new, kept)}, added \in {not_in(kept, new)} :
            \E verbose \in BOOLEAN :
            LET hack == IF platform = "win32" /\ verbose
                        THEN prefixed(MSG_HACK_WINDOWS, to_removed(read)) ELSE <<>>
                mismatch == is_mismatch(removed, added)
            IN  /\ licenses' = kept
                /\ new_licenses' = new
                /\ removed_licenses' = removed
                /\ added_licenses' = added
                /\ stdout' = <<MSG_VERIFY>> \o hack \o prefixed(PLUS, removed)
                             \o prefixed(MINUS, added)
                             \o <<IF mismatch THEN MSG_NOT_UP_TO_DATE ELSE MSG_OK>>
                /\ outcome' = IF mismatch THEN "exit_mismatch" ELSE "ok"

----------------------------------------------------------------------------
(* generate_licenses                                                       *)

generate_licenses ==
    /\ cmd' = "generate_licenses"
    /\ UNCHANGED <<platform, tool_ok, stderr>>
    /\ licenses' = <<>>
    /\ removed_licenses' = <<>>
    /\ added_licenses' = <<>>
    /\ IF ~tool_ok
       THEN \* open(filename, 'w') has emptied the file and the header is
            \* written before get_licenses_list runs; ctx.run raises, and
            \* leaving the with block closes the file with the header in it
            /\ file' = HEADER
            /\ new_licenses' = <<>>
            /\ stdout' = <<>>
            /\ outcome' = "tool_failure"
       ELSE \E new \in {get_licenses_list(stderr)} :
            \E verbose \in BOOLEAN :
                /\ file' = written_file(new)
                /\ new_licenses' = new
                /\ stdout' = (IF verbose THEN new ELSE <<>>) \o <<MSG_GENERATED>>
                /\ outcome' = "ok"

----------------------------------------------------------------------------
(* lint_licenses_old                                                       *)

\* The names in go.sum: the first of the three blank-separated parts of a line.
go_deps(sum) ==
    LET lines == file_lines(sum)
    IN  {Split(lines[i], SPACE)[1] : i \in {j \in 1..Len(lines) : Len(Split(lines[j], SPACE)) = 3}}

\* '/'.join(entry['Origin'].split("/")[0:3])
origin_name(origin) ==
    LET parts == Split(origin, SLASH)
    IN  Join(SLASH, SubSeq(parts, 1, IF Len(parts) < 3 THEN Len(parts) ELSE 3))

\* The loop without the test of the License field.
RECURSIVE scan_entries_unchecked(_, _)
scan_entries_unchecked(entries, i) ==
    IF i > Len(entries) THEN [raised |-> "none", printed |-> <<>>, deps |-> {}]
    ELSE LET name == origin_name(entries[i].Origin)
             rest == scan_entries_unchecked(entries, i + 1)
         IN  [raised |-> rest.raised,
              printed |-> <<name>> \o rest.printed,
              deps |-> {name} \cup rest.deps]

\* The loop over the entries from entries[i] on: what it prints and adds,
\* and how it is left.
RECURSIVE scan_entries(_, _)
scan_entries(entries, i) ==
    IF i > Len(entries) THEN [raised |-> "none", printed |-> <<>>, deps |-> {}]
    ELSE IF entries[i].License = NONE
         THEN [raised |-> "TypeError", printed |-> <<>>, deps |-> {}]
    ELSE IF Len(entries[i].License) = 0
         THEN [raised |-> "exit_empty_license", printed |-> <<>>, deps |-> {}]
    ELSE LET name == origin_name(entries[i].Origin)
             rest == scan_entries(entries, i + 1)
         IN  [raised |-> rest.raised,
              printed |-> <<name>> \o rest.printed,
              deps |-> {name} \cup rest.deps]

lint_licenses_old ==
    \E scan \in {scan_entries(dict_entries(file), 1)} :
    \E go_sum \in GoSums :
    \E deps \in {go_deps(go_sum) \cup NON_GO_DEPS} :
        /\ cmd' = "lint_licenses_old"
        /\ UNCHANGED <<platform, tool_ok, stderr, file>>
        /\ licenses' = <<>>
        /\ new_licenses' = <<>>
        /\ removed_licenses' = <<>>
        /\ added_licenses' = <<>>
        /\ stdout' = scan.printed
        /\ outcome' = IF scan.raised # "none" THEN scan.raised
                      ELSE IF deps # scan.deps THEN "exit_outdated"
                      ELSE "ok"

----------------------------------------------------------------------------

Next == lint_licenses \/ generate_licenses \/ lint_licenses_old

Spec == Init /\ [][Next]_vars

----------------------------------------------------------------------------
(* The properties.                                                         *)

\* The last task obtained a list from get_licenses_list.
Discovered ==
    /\ cmd \in {"lint_licenses", "generate_licenses"}
    /\ outcome \in {"ok", "exit_mismatch"}

\* The last task was lint_licenses and it reached the comparison.
Reconciled == cmd = "lint_licenses" /\ outcome \in {"ok", "exit_mismatch"}

Generated == cmd = "generate_licenses" /\ outcome = "ok"

EndsWithWhitespace(row) == row # <<>> /\ row[Len(row)] \in WHITESPACE

\* The recorded manifest has an entry whose License field is empty.
HasEmptyLicense(text) ==
    \E e \in Range(dict_entries(text)) : e.License = <<>>

Last(s) == s[Len(s)]

\* C1: when the discovery step of generate_licenses fails, the manifest on
\* disk keeps the content it had before the call.
C1_ManifestUntouchedOnFailure ==
    [][(cmd' = "generate_licenses" /\ outcome' = "tool_failure") => file' = file]_vars

\* C2: a marker line with a package=P val and a license=L val gives the
\* entry core,P,L, whichever of the two vals comes first.
C2_EitherTokenOrder ==
    Discovered =>
        \A line \in Range(Split(stderr, NEWLINE)) :
        \A p \in {PKG_FOO, PKG_GOPSUTIL}, l \in {LIC_MIT, LIC_BSD} :
            line \in { found(<<lic(l), pkg(p)>>), found(<<pkg(p), lic(l)>>),
                       found_bare(<<lic(l), pkg(p)>>), found_bare(<<pkg(p), lic(l)>>) }
            => In(format_entry(p, l), new_licenses)

\* C3: off Windows the "+" rows are exactly the rows of the discovered list
\* that are not recorded, the "-" rows exactly the recorded rows that are
\* not discovered, by equality of the whole row; the two are disjoint, and
\* both are empty when the recorded and the discovered rows are the same.
C3_DiffIsSetDifference ==
    (Reconciled /\ platform # "win32") =>
        LET old == Range(read_licenses(file))
            new == Range(new_licenses)
        IN  /\ Range(removed_licenses) = new \ old
            /\ Range(added_licenses) = old \ new
            /\ Range(removed_licenses) \cap Range(added_licenses) = {}
            /\ (old = new => removed_licenses = <<>> /\ added_licenses = <<>>)
            /\ {l \in Range(stdout) : StartsWith(l, PLUS)} = {PLUS \o r : r \in new \ old}
            /\ {l \in Range(stdout) : StartsWith(l, MINUS)} = {MINUS \o r : r \in old \ new}

C3_Witness ==
    /\ Reconciled
    /\ platform # "win32"
    /\ removed_licenses # <<>>
    /\ added_licenses # <<>>
    /\ Range(read_licenses(file)) \cap Range(new_licenses) # {}

\* Scenario 2: recorded {A, B}, discovered {B, C}.
Scenario2 ==
    /\ platform = "linux"
    /\ file = manifest_text(<<format_entry(PKG_GOPSUTIL, LIC_MIT), BOOTSTRAP>>)
    /\ stderr = found(<<lic(LIC_MIT), pkg(PKG_FOO)>>)

\* C4: lint_licenses ends with Exit(code=1) exactly when the "+" list or the
\* "-" list is not empty, and with "licenses ok" when both are empty;
\* Scenario 2 gives missing [C], extra [A] and the exit.
C4_ExitIffDifference ==
    cmd = "lint_licenses" =>
        /\ outcome = "exit_mismatch" <=> (removed_licenses # <<>> \/ added_licenses # <<>>)
        /\ Reconciled =>
            /\ outcome = "ok" <=> (removed_licenses = <<>> /\ added_licenses = <<>>)
            /\ Last(stdout) = IF outcome = "ok" THEN MSG_OK ELSE MSG_NOT_UP_TO_DATE
        /\ (Reconciled /\ Scenario2) =>
            /\ removed_licenses = <<format_entry(PKG_FOO, LIC_MIT)>>
            /\ added_licenses = <<format_entry(PKG_GOPSUTIL, LIC_MIT)>>
            /\ outcome = "exit_mismatch"

C4_Witness ==
    /\ Reconciled
    /\ Scenario2
    /\ outcome = "exit_mismatch"

\* C5 as stated: with a recorded entry whose license field is empty, both
\* audits stop before any reconciliation: no diff line is printed and
\* neither "licenses ok" nor a mismatch is reached.
C5_BothAuditsStopOnEmptyLicense ==
    (cmd \in {"lint_licenses", "lint_licenses_old"} /\ HasEmptyLicense(file)) =>
        /\ outcome \notin {"ok", "exit_mismatch", "exit_outdated"}
        /\ \A l \in Range(stdout) : ~StartsWith(l, PLUS) /\ ~StartsWith(l, MINUS)

\* C5 as amended: lint_licenses_old stops at the first entry with an empty
\* license field, before the comparison with go.sum; lint_licenses has no
\* such stop and reaches its comparison.
C5_OnlyOldAuditChecksLicenseField ==
    HasEmptyLicense(file) =>
        /\ cmd = "lint_licenses_old" =>
            /\ outcome = "exit_empty_license"
            /\ Len(stdout) < Len(dict_entries(file))
            /\ \A i \in 1..Len(stdout) : dict_entries(file)[i].License # <<>>
            /\ dict_entries(file)[Len(stdout) + 1].License = <<>>
        /\ (cmd = "lint_licenses" /\ tool_ok) => Reconciled

C5_Witness ==
    /\ cmd = "lint_licenses_old"
    /\ HasEmptyLicense(file)
    /\ outcome = "exit_empty_license"
    /\ stdout # <<>>

\* C6: every row get_licenses_list returns, and generate_licenses writes,
\* has a license field that is not empty.
C6_NonEmptyLicenseField ==
    Discovered =>
        /\ \A row \in Range(new_licenses) : Last(csv_fields(row)) # <<>>
        /\ Generated => ~HasEmptyLicense(file)

\* C7 as stated: the rows read back from the file generate_licenses wrote
\* are the list it was given.
C7_RoundTrip ==
    Generated => read_licenses(file) = new_licenses

\* C7 as amended: the rows read back are the rows written with their
\* trailing whitespace removed, so they are the list written when no row
\* ends with whitespace.
C7_RoundTripUpToTrailingWhitespace ==
    Generated =>
        LET back == read_licenses(file)
        IN  /\ Len(back) = Len(new_licenses)
            /\ \A i \in 1..Len(back) : back[i] = rstrip(new_licenses[i])
            /\ (\A i \in 1..Len(new_licenses) : ~EndsWithWhitespace(new_licenses[i]))
                   => back = new_licenses

C7_Witness ==
    /\ Generated
    /\ Len(new_licenses) >= 3
    /\ \A i \in 1..Len(new_licenses) : ~EndsWithWhitespace(new_licenses[i])
    /\ read_licenses(file) = new_licenses

\* C8: the list has one entry for each line with the marker, and the
\* bootstrap entry: 1 + (number of marker lines) entries.
C8_OneEntryPerMarkerLine ==
    Discovered =>
        LET lines == Split(stderr, NEWLINE)
        IN  Len(new_licenses)
                = 1 + Cardinality({i \in 1..Len(lines) : Contains(lines[i], MARKER)})

\* C9: the list get_licenses_list returns is in ascending order of the
\* whole row and holds the bootstrap entry.
C9_SortedWithBootstrap ==
    Discovered =>
        /\ \A i \in 1..(Len(new_licenses) - 1) : ~StrLess(new_licenses[i + 1], new_licenses[i])
        /\ In(BOOTSTRAP, new_licenses)

C9_Witness ==
    /\ Discovered
    /\ Len(new_licenses) >= 3
    /\ appended_licenses(stderr) # new_licenses

\* C10 as stated: on win32 no row naming gopsutil is in the "+" list nor in
\* the "-" list.
C10_ExcludedFromBothLists ==
    (Reconciled /\ platform = "win32") =>
        \A r \in Range(removed_licenses) \cup Range(added_licenses) :
            ~Contains(r, IGNORE_GOPSUTIL)

\* C10 as amended: on win32 the recorded rows naming gopsutil are left out
\* of the comparison, the discovered rows are not, and a discovered row
\* naming it is always in the "+" list; elsewhere every recorded row is
\* compared.
C10_RecordedRowsExcludedOnWin32 ==
    Reconciled =>
        LET old == Range(read_licenses(file))
            kept == {r \in old : ~Contains(r, IGNORE_GOPSUTIL)}
            new == Range(new_licenses)
        IN  IF platform = "win32"
            THEN /\ Range(added_licenses) = kept \ new
                 /\ Range(removed_licenses) = new \ kept
                 /\ \A r \in new : Contains(r, IGNORE_GOPSUTIL) => In(r, removed_licenses)
            ELSE /\ licenses = read_licenses(file)
                 /\ Range(added_licenses) = old \ new

C10_Witness ==
    /\ Reconciled
    /\ platform = "win32"
    /\ \E r \in Range(read_licenses(file)) : Contains(r, IGNORE_GOPSUTIL)
    /\ outcome = "ok"

====
